---- MODULE Spec2Model ----
(***************************************************************************)
(* GratingStim (psychopy/visual/grating.py): the parameter setters, the   *)
(* derived cycles-per-stimulus, the lazily recompiled display list, draw() *)
(* and the release of the GL handles.                                      *)
(*                                                                         *)
(* An x,y-pair is a pair of numbers; None is the empty tuple.              *)
(***************************************************************************)
EXTENDS Integers, Sequences, FiniteSets, TLC

VARIABLES stim, gl, life, last

vars == <<stim, gl, life, last>>

----------------------------------------------------------------------------
(* Arithmetic on the float arrays.  Every number the model uses is a     *)
(* dyadic fraction, on which float arithmetic is exact; a number is held as *)
(* its count of 1/Scale-ths.                                               *)

Scale == 8 * 8

FMul(a, b) == (a * b) \div Scale

FInv(a) == (Scale * Scale) \div a

VMul(u, v) == <<FMul(u[1], v[1]), FMul(u[2], v[2])>>

VInv(v) == <<FInv(v[1]), FInv(v[2])>>

VScale(v, k) == <<FMul(v[1], k), FMul(v[2], k)>>

None == <<>>

Zero == 0 * Scale

One == 1 * Scale

Two == 2 * Scale

Four == 4 * Scale

Half == Scale \div 2

----------------------------------------------------------------------------
(* Values a caller can assign.  An assigned value is None, a scalar, an    *)
(* x,y-pair or something val2array cannot turn into a pair.                *)

NoneIn == [k |-> "none", x |-> Zero, y |-> Zero]

Scalar(r) == [k |-> "scalar", x |-> r, y |-> r]

Pair(r1, r2) == [k |-> "pair", x |-> r1, y |-> r2]

BadIn == [k |-> "bad", x |-> Zero, y |-> Zero]

Arr(v) == IF v = None THEN NoneIn ELSE Pair(v[1], v[2])

\* val2array: None stays None, a scalar is repeated to length 2, a pair is
\* kept; anything else raises.
val2arrayOK(value) == value.k # "bad"

val2array(value) ==
    CASE value.k = "none"   -> None
      [] value.k = "scalar" -> <<value.x, value.x>>
      [] OTHER              -> <<value.x, value.y>>

Units == {"norm", "height", "deg", "cm", "pix"}

\* Pixels per unit of the window the stimulus is drawn in.
PixPerUnit(u) ==
    CASE u = "pix"    -> One
      [] u = "deg"    -> Two
      [] u = "cm"     -> Two
      [] OTHER        -> Four

\* The image file on disk and its pixel size.
ImgSize == <<Four, Four>>

TexSpecs == {"sin", "img", "missing"}

MaskSpecs == {"none", "gauss", "missing"}

TexResValues == {128}

\* Resolutions a caller may hand over, good and bad.
TexResInputs == {-128, 100, 128}

MaskParamValues == {"None"}

OriValues == {0, 45}

\* Grey levels (rgb space, -1..1), contrasts and opacities.
ColorValues == {One, Zero}

ContrastValues == {One, Half}

OpacityValues == {One, Half}

\* The colour a GL context starts with, as <<grey level, alpha>>.
White == <<One, One>>

SizeInputs == {NoneIn, Pair(Two, Two), Pair(One, Two), BadIn}

SfInputs == {NoneIn, Scalar(Two), Pair(One, One), BadIn}

PhaseInputs == {Scalar(Zero), Pair(Half, Zero), BadIn}

\* Phases of a drifting grating: below 0, within a cycle, beyond a cycle.
DriftPhases ==
    {Scalar(Zero), Pair(Half, Zero), Pair(One + Half, Two),
     Pair(Zero - Half, One)}

\* What a method hands back: the object, the GL context and the exception
\* ("none" when it returned normally).
Res(s, g, e) == [s |-> s, g |-> g, err |-> e]

\* One GL command issued: recorded in the log of the running operation.
Emit(g, cmd) == [g EXCEPT !.log = Append(@, cmd)]

----------------------------------------------------------------------------
(* Derived state *)

\* (mutant) the size-independent branch lost: always sf * size
CyclesAlwaysTimesSize(s) == [s EXCEPT !.cycles = VMul(s.sf, s.size)]

_calcCyclesPerStim(s) ==
    IF s.units \in {"norm", "height"}
    THEN [s EXCEPT !.cycles = s.sf]
    ELSE [s EXCEPT !.cycles = VMul(s.sf, s.size)]

_calcSizeRendered(s) ==
    [s EXCEPT !.sizeRendered = VScale(s.size, PixPerUnit(s.units))]

----------------------------------------------------------------------------
(* Setters inherited from BaseVisualStim *)

\* size: None resolves to the intrinsic size of the loaded image, expressed
\* in the stimulus' units; without an image the size stays as it is.
size(s, g, value, resolveFails) ==
    IF ~val2arrayOK(value) THEN Res(s, g, "InvalidParameterError")
    ELSE LET v == val2array(value) IN
         IF v = None /\ s.origSize # None /\ resolveFails
         THEN Res(s, g, "ConversionError")
         ELSE LET new == IF v # None THEN v
                         ELSE IF s.origSize = None THEN s.size
                         ELSE VScale(s.origSize, FInv(PixPerUnit(s.units)))
                  s1 == [s EXCEPT !.requestedSize = v, !.size = new]
                  s2 == _calcCyclesPerStim(_calcSizeRendered(s1))
              IN  Res([s2 EXCEPT !.needUpdate = TRUE], g, "none")

units(s, g, value) ==
    LET s1 == [s EXCEPT !.units = value]
        s2 == _calcCyclesPerStim(_calcSizeRendered(s1))
    IN  Res([s2 EXCEPT !.needUpdate = TRUE], g, "none")

ori(s, g, value) ==
    Res([s EXCEPT !.ori = value, !.needUpdate = TRUE], g, "none")

\* color, contrast, opacity: stored, consumed by draw().
color(s, g, value) == Res([s EXCEPT !.color = value], g, "none")

contrast(s, g, value) == Res([s EXCEPT !.contrast = value], g, "none")

opacity(s, g, value) == Res([s EXCEPT !.opacity = value], g, "none")

\* The colour resolver in rgb space: (rgb * contrast + 1) / 2.
_getDesiredRGB(s) == (FMul(s.color, s.contrast) + One) \div 2

----------------------------------------------------------------------------
(* The texture provider, psychopy.visual.helpers.createTexture: uploads the *)
(* pattern into the handle it is given; an image file also establishes the *)
(* stimulus' intrinsic size.  A file that cannot be read raises and leaves *)
(* the handle's content alone.                                             *)

Content(s, value) == <<value, s.texRes, s.maskParams>>

createTexture(s, g, value, id) ==
    IF value = "missing" THEN Res(s, g, "TextureLoadError")
    ELSE LET g1 == IF id = "_texID"
                   THEN [g EXCEPT !.texContent = Content(s, value)]
                   ELSE [g EXCEPT !.maskContent = Content(s, value)]
             s1 == IF value = "img" THEN [s EXCEPT !.origSize = ImgSize] ELSE s
         IN  Res(s1, Emit(g1, <<"glTexImage2D", id>>), "none")

----------------------------------------------------------------------------
(* GratingStim's own setters *)

sf(s, g, value) ==
    IF value.k = "none"
    THEN LET v == IF s.units \in {"pix", "pixels"}
                     \/ (s.origSize # None /\ s.units \in {"deg", "cm"})
                  THEN VInv(s.size)
                  ELSE <<One, One>>
             s1 == _calcCyclesPerStim([s EXCEPT !.sf = v])
         IN  Res([s1 EXCEPT !.needUpdate = TRUE], g, "none")
    ELSE IF ~val2arrayOK(value) THEN Res(s, g, "InvalidParameterError")
    ELSE LET s1 == _calcCyclesPerStim([s EXCEPT !.sf = val2array(value)])
         IN  Res([s1 EXCEPT !.needUpdate = TRUE], g, "none")

\* (mutant) phase stored, the dirty flag forgotten
phaseNoDirty(s, g, value) ==
    IF ~val2arrayOK(value) THEN Res(s, g, "InvalidParameterError")
    ELSE Res([s EXCEPT !.phase = val2array(value)], g, "none")

phase(s, g, value) ==
    IF ~val2arrayOK(value) THEN Res(s, g, "InvalidParameterError")
    ELSE Res([s EXCEPT !.phase = val2array(value), !.needUpdate = TRUE],
             g, "none")

\* (mutant) the size never re-resolved from the new image
texKeepsSize(s, g, value, resolveFails) ==
    LET up == createTexture(s, g, value, "_texID") IN
    IF up.err # "none" THEN up
    ELSE Res([up.s EXCEPT !.tex = value], up.g, "none")

\* (mutant) the parameter stored before the provider is called
texStoresFirst(s, g, value, resolveFails) ==
    LET up == createTexture([s EXCEPT !.tex = value], g, value, "_texID") IN
    IF up.err # "none" THEN up
    ELSE IF up.s.requestedSize = None
    THEN size(up.s, up.g, NoneIn, resolveFails)
    ELSE up

tex(s, g, value, resolveFails) ==
    LET up == createTexture(s, g, value, "_texID") IN
    IF up.err # "none" THEN up
    ELSE IF up.s.requestedSize = None
    THEN LET r == size(up.s, up.g, NoneIn, resolveFails) IN
         IF r.err # "none" THEN r
         ELSE Res([r.s EXCEPT !.tex = value], r.g, "none")
    ELSE Res([up.s EXCEPT !.tex = value], up.g, "none")

\* (mutant) the mask uploaded into the texture's handle
maskIntoTexID(s, g, value) ==
    LET up == createTexture(s, g, value, "_texID") IN
    IF up.err # "none" THEN up
    ELSE Res([up.s EXCEPT !.mask = value], up.g, "none")

mask(s, g, value) ==
    LET up == createTexture(s, g, value, "_maskID") IN
    IF up.err # "none" THEN up
    ELSE Res([up.s EXCEPT !.mask = value], up.g, "none")

\* texRes and maskParams are plain attributes of the object.
texRes(s, g, value) == Res([s EXCEPT !.texRes = value], g, "none")

maskParams(s, g, value) == Res([s EXCEPT !.maskParams = value], g, "none")

----------------------------------------------------------------------------
(* The display list *)

\* (mutant) the phase reduced to its fraction of a cycle
QuadPhaseWrapped(s) ==
    [L     |-> -(s.sizeRendered[1] \div 2),
     R     |-> s.sizeRendered[1] \div 2,
     T     |-> s.sizeRendered[2] \div 2,
     B     |-> -(s.sizeRendered[2] \div 2),
     Ltex  |-> -(s.cycles[1] \div 2) - (s.phase[1] % Scale) + Half,
     Rtex  |-> (s.cycles[1] \div 2) - (s.phase[1] % Scale) + Half,
     Ttex  |-> (s.cycles[2] \div 2) - (s.phase[2] % Scale) + Half,
     Btex  |-> -(s.cycles[2] \div 2) - (s.phase[2] % Scale) + Half,
     Lmask |-> Zero, Bmask |-> Zero, Tmask |-> One, Rmask |-> One]

\* The coordinates _updateListShaders computes: vertices, texture window,
\* mask corners.
Quad(s) ==
    [L     |-> -(s.sizeRendered[1] \div 2),
     R     |-> s.sizeRendered[1] \div 2,
     T     |-> s.sizeRendered[2] \div 2,
     B     |-> -(s.sizeRendered[2] \div 2),
     Ltex  |-> -(s.cycles[1] \div 2) - s.phase[1] + Half,
     Rtex  |-> (s.cycles[1] \div 2) - s.phase[1] + Half,
     Ttex  |-> (s.cycles[2] \div 2) - s.phase[2] + Half,
     Btex  |-> -(s.cycles[2] \div 2) - s.phase[2] + Half,
     Lmask |-> Zero, Bmask |-> Zero, Tmask |-> One, Rmask |-> One]

\* (mutant) the mask stretched by the cycles like the texture
QuadNoShadersMaskRepeats(s) ==
    [L     |-> -(s.sizeRendered[1] \div 2),
     R     |-> s.sizeRendered[1] \div 2,
     T     |-> s.sizeRendered[2] \div 2,
     B     |-> -(s.sizeRendered[2] \div 2),
     Ltex  |-> -(s.cycles[1] \div 2) - s.phase[1] + Half,
     Rtex  |-> (s.cycles[1] \div 2) - s.phase[1] + Half,
     Ttex  |-> (s.cycles[2] \div 2) - s.phase[2] + Half,
     Btex  |-> -(s.cycles[2] \div 2) - s.phase[2] + Half,
     Lmask |-> Zero, Bmask |-> Zero, Tmask |-> s.cycles[2],
     Rmask |-> s.cycles[1]]

\* The coordinates _updateListNoShaders computes.
QuadNoShaders(s) ==
    [L     |-> -(s.sizeRendered[1] \div 2),
     R     |-> s.sizeRendered[1] \div 2,
     T     |-> s.sizeRendered[2] \div 2,
     B     |-> -(s.sizeRendered[2] \div 2),
     Ltex  |-> -(s.cycles[1] \div 2) - s.phase[1] + Half,
     Rtex  |-> (s.cycles[1] \div 2) - s.phase[1] + Half,
     Ttex  |-> (s.cycles[2] \div 2) - s.phase[2] + Half,
     Btex  |-> -(s.cycles[2] \div 2) - s.phase[2] + Half,
     Lmask |-> Zero, Bmask |-> Zero, Tmask |-> One, Rmask |-> One]

\* (mutant) the program left in use at the end of the list
ShaderCommandsKeepProgram(q) ==
    << <<"glUseProgram", "_progSignedTexMask">>,
       <<"glUniform1i", "texture", 0>>,
       <<"glUniform1i", "mask", 1>>,
       <<"glActiveTexture", 1>>,
       <<"glBindTexture", "_maskID">>,
       <<"glEnable", "GL_TEXTURE_2D">>,
       <<"glActiveTexture", 0>>,
       <<"glBindTexture", "_texID">>,
       <<"glEnable", "GL_TEXTURE_2D">>,
       <<"glBegin", "GL_QUADS">>,
       <<"glMultiTexCoord2f", 0, q.Rtex, q.Btex>>,
       <<"glMultiTexCoord2f", 1, q.Rmask, q.Bmask>>,
       <<"glVertex2f", q.R, q.B>>,
       <<"glMultiTexCoord2f", 0, q.Ltex, q.Btex>>,
       <<"glMultiTexCoord2f", 1, q.Lmask, q.Bmask>>,
       <<"glVertex2f", q.L, q.B>>,
       <<"glMultiTexCoord2f", 0, q.Ltex, q.Ttex>>,
       <<"glMultiTexCoord2f", 1, q.Lmask, q.Tmask>>,
       <<"glVertex2f", q.L, q.T>>,
       <<"glMultiTexCoord2f", 0, q.Rtex, q.Ttex>>,
       <<"glMultiTexCoord2f", 1, q.Rmask, q.Tmask>>,
       <<"glVertex2f", q.R, q.T>>,
       <<"glEnd", "">>,
       <<"glActiveTexture", 1>>,
       <<"glBindTexture", "0">>,
       <<"glDisable", "GL_TEXTURE_2D">>,
       <<"glActiveTexture", 0>>,
       <<"glBindTexture", "0">>,
       <<"glDisable", "GL_TEXTURE_2D">> >>

\* The commands _updateListShaders records between glNewList and glEndList,
\* q being the coordinates it computed.
ShaderCommands(q) ==
    << <<"glUseProgram", "_progSignedTexMask">>,
       <<"glUniform1i", "texture", 0>>,
       <<"glUniform1i", "mask", 1>>,
       <<"glActiveTexture", 1>>,
       <<"glBindTexture", "_maskID">>,
       <<"glEnable", "GL_TEXTURE_2D">>,
       <<"glActiveTexture", 0>>,
       <<"glBindTexture", "_texID">>,
       <<"glEnable", "GL_TEXTURE_2D">>,
       <<"glBegin", "GL_QUADS">>,
       <<"glMultiTexCoord2f", 0, q.Rtex, q.Btex>>,
       <<"glMultiTexCoord2f", 1, q.Rmask, q.Bmask>>,
       <<"glVertex2f", q.R, q.B>>,
       <<"glMultiTexCoord2f", 0, q.Ltex, q.Btex>>,
       <<"glMultiTexCoord2f", 1, q.Lmask, q.Bmask>>,
       <<"glVertex2f", q.L, q.B>>,
       <<"glMultiTexCoord2f", 0, q.Ltex, q.Ttex>>,
       <<"glMultiTexCoord2f", 1, q.Lmask, q.Tmask>>,
       <<"glVertex2f", q.L, q.T>>,
       <<"glMultiTexCoord2f", 0, q.Rtex, q.Ttex>>,
       <<"glMultiTexCoord2f", 1, q.Rmask, q.Tmask>>,
       <<"glVertex2f", q.R, q.T>>,
       <<"glEnd", "">>,
       <<"glActiveTexture", 1>>,
       <<"glBindTexture", "0">>,
       <<"glDisable", "GL_TEXTURE_2D">>,
       <<"glActiveTexture", 0>>,
       <<"glBindTexture", "0">>,
       <<"glDisable", "GL_TEXTURE_2D">>,
       <<"glUseProgram", "0">> >>

\* The commands _updateListNoShaders records.
LegacyCommands(q) ==
    << <<"glColor4f", One, One>>,
       <<"glActiveTextureARB", 1>>,
       <<"glEnable", "GL_TEXTURE_2D">>,
       <<"glBindTexture", "_maskID">>,
       <<"glActiveTextureARB", 0>>,
       <<"glEnable", "GL_TEXTURE_2D">>,
       <<"glBindTexture", "_texID">>,
       <<"glBegin", "GL_QUADS">>,
       <<"glMultiTexCoord2fARB", 0, q.Rtex, q.Btex>>,
       <<"glMultiTexCoord2fARB", 1, q.Rmask, q.Bmask>>,
       <<"glVertex2f", q.R, q.B>>,
       <<"glMultiTexCoord2fARB", 0, q.Ltex, q.Btex>>,
       <<"glMultiTexCoord2fARB", 1, q.Lmask, q.Bmask>>,
       <<"glVertex2f", q.L, q.B>>,
       <<"glMultiTexCoord2fARB", 0, q.Ltex, q.Ttex>>,
       <<"glMultiTexCoord2fARB", 1, q.Lmask, q.Tmask>>,
       <<"glVertex2f", q.L, q.T>>,
       <<"glMultiTexCoord2fARB", 0, q.Rtex, q.Ttex>>,
       <<"glMultiTexCoord2fARB", 1, q.Rmask, q.Tmask>>,
       <<"glVertex2f", q.R, q.T>>,
       <<"glEnd", "">>,
       <<"glActiveTextureARB", 1>>,
       <<"glDisable", "GL_TEXTURE_2D">>,
       <<"glBindTexture", "0">>,
       <<"glActiveTextureARB", 0>>,
       <<"glDisable", "GL_TEXTURE_2D">>,
       <<"glBindTexture", "0">> >>

\* (mutant) a fresh list generated for every compilation
_updateListShadersNewList(s, g, fails) ==
    LET s1 == [s EXCEPT !.needUpdate = FALSE, !.listID = g.listGen + 1]
        g1 == Emit(Emit([g EXCEPT !.listGen = @ + 1],
                        <<"glGenLists", "_listID">>),
                   <<"glNewList", "_listID">>)
    IN  IF fails THEN Res(s1, g1, "GLError")
        ELSE Res(s1,
                 Emit([g1 EXCEPT !.list = [program |-> "_progSignedTexMask",
                                           color   |-> "none",
                                           quad    |-> Quad(s1)]],
                      <<"glEndList", "_listID">>),
                 "none")

_updateListShaders(s, g, fails) ==
    LET s1 == [s EXCEPT !.needUpdate = FALSE]
        g1 == Emit(g, <<"glNewList", "_listID">>)
    IN  IF fails THEN Res(s1, g1, "GLError")
        ELSE Res(s1,
                 Emit([g1 EXCEPT !.list = [program |-> "_progSignedTexMask",
                                           color   |-> "none",
                                           quad    |-> Quad(s1)]],
                      <<"glEndList", "_listID">>),
                 "none")

\* (mutant) the texture uploaded again by every compilation
_updateListNoShadersReloads(s, g, fails) ==
    LET s1 == [s EXCEPT !.needUpdate = FALSE]
        g1 == Emit(Emit(g, <<"glTexImage2D", "_texID">>),
                   <<"glNewList", "_listID">>)
    IN  IF fails THEN Res(s1, g1, "GLError")
        ELSE Res(s1,
                 Emit([g1 EXCEPT !.list = [program |-> "none",
                                           color   |-> "white",
                                           quad    |-> QuadNoShaders(s1)]],
                      <<"glEndList", "_listID">>),
                 "none")

_updateListNoShaders(s, g, fails) ==
    LET s1 == [s EXCEPT !.needUpdate = FALSE]
        g1 == Emit(g, <<"glNewList", "_listID">>)
    IN  IF fails THEN Res(s1, g1, "GLError")
        ELSE Res(s1,
                 Emit([g1 EXCEPT !.list = [program |-> "none",
                                           color   |-> "white",
                                           quad    |-> QuadNoShaders(s1)]],
                      <<"glEndList", "_listID">>),
                 "none")

\* BaseVisualStim._updateList: the backend chosen at construction
_updateList(s, g, fails) ==
    IF s.useShaders THEN _updateListShaders(s, g, fails)
    ELSE _updateListNoShaders(s, g, fails)

----------------------------------------------------------------------------
(* draw *)

glPushMatrix(g) ==
    Emit([g EXCEPT !.mstack = Append(@, g.xform)], <<"glPushMatrix", "">>)

glPopMatrix(g) ==
    Emit([g EXCEPT !.xform = g.mstack[Len(g.mstack)],
                   !.mstack = SubSeq(@, 1, Len(@) - 1)],
         <<"glPopMatrix", "">>)

\* setScale, glTranslatef, glRotatef: composed onto the current matrix
Transform(s, g) == [g EXCEPT !.xform = Append(@, s.ori)]

\* glColor4f: the current colour of the context.
glColor4f(g, rgb, alpha) ==
    Emit([g EXCEPT !.color = <<rgb, alpha>>], <<"glColor4f", <<rgb, alpha>>>>)

\* glCallList: the commands recorded in the list are executed; a colour
\* command among them replaces the current colour before the quad is
\* emitted.
Exec(g, c) ==
    CASE c[1] = "glUseProgram" -> [g EXCEPT !.program = c[2]]
      [] c[1] \in {"glActiveTexture", "glActiveTextureARB"}
            -> [g EXCEPT !.active = c[2]]
      [] c[1] = "glBindTexture" -> [g EXCEPT !.bound[g.active + 1] = c[2]]
      [] c[1] = "glEnable" -> [g EXCEPT !.enabled[g.active + 1] = TRUE]
      [] c[1] = "glDisable" -> [g EXCEPT !.enabled[g.active + 1] = FALSE]
      [] c[1] = "glColor4f" -> [g EXCEPT !.color = <<c[2], c[3]>>]
      [] OTHER -> g

RECURSIVE Run(_, _, _)
Run(g, cmds, i) ==
    IF i > Len(cmds) THEN g ELSE Run(Exec(g, cmds[i]), cmds, i + 1)

\* What the list holds: the commands of the backend that compiled it.
Recorded(l) ==
    CASE l.program = "_progSignedTexMask" -> ShaderCommands(l.quad)
      [] l.program = "none"               -> LegacyCommands(l.quad)
      [] OTHER                            -> <<>>

glCallList(g) ==
    Emit(Run(g, Recorded(g.list), 1), <<"glCallList", "_listID">>)

\* (mutant) the colour set only when the list is recompiled
drawColorOnCompile(s, g, colorFails, compileFails, replayFails) ==
    LET g1 == Transform(s, glPushMatrix(g)) IN
    IF colorFails THEN Res(s, g1, "ColorError")
    ELSE LET up == IF s.needUpdate
                   THEN _updateList(s,
                                    glColor4f(g1, _getDesiredRGB(s),
                                              s.opacity),
                                    compileFails)
                   ELSE Res(s, g1, "none")
         IN  IF up.err # "none" THEN up
             ELSE IF replayFails
             THEN Res(up.s, Emit(up.g, <<"glCallList", "failed">>), "GLError")
             ELSE Res(up.s, glPopMatrix(glCallList(up.g)), "none")

\* (mutant) the list rebuilt on every draw, dirty or not
drawAlwaysUpdates(s, g, colorFails, compileFails, replayFails) ==
    LET g1 == Transform(s, glPushMatrix(g)) IN
    IF colorFails THEN Res(s, g1, "ColorError")
    ELSE LET up == _updateList(s, glColor4f(g1, _getDesiredRGB(s), s.opacity),
                               compileFails)
         IN  IF up.err # "none" THEN up
             ELSE IF replayFails
             THEN Res(up.s, Emit(up.g, <<"glCallList", "failed">>), "GLError")
             ELSE Res(up.s, glPopMatrix(glCallList(up.g)), "none")

draw(s, g, colorFails, compileFails, replayFails) ==
    LET g1 == Transform(s, glPushMatrix(g)) IN
    IF colorFails THEN Res(s, g1, "ColorError")
    ELSE LET g2 == glColor4f(g1, _getDesiredRGB(s), s.opacity)
             up == IF s.needUpdate THEN _updateList(s, g2, compileFails)
                   ELSE Res(s, g2, "none")
         IN  IF up.err # "none" THEN up
             ELSE IF replayFails
             THEN Res(up.s, Emit(up.g, <<"glCallList", "failed">>), "GLError")
             ELSE Res(up.s, glPopMatrix(glCallList(up.g)), "none")

----------------------------------------------------------------------------
(* Release *)

clearTextures(s, g, releaseFails) ==
    IF releaseFails THEN Res(s, g, "GLError")
    ELSE Res(s,
             Emit(Emit([g EXCEPT !.texRel = @ + 1, !.maskRel = @ + 1],
                       <<"glDeleteTextures", "_texID">>),
                  <<"glDeleteTextures", "_maskID">>),
             "none")

__del__(s, g, releaseFails) ==
    IF ~s.hasList THEN Res(s, g, "AttributeError")
    ELSE IF releaseFails THEN Res(s, g, "GLError")
    ELSE clearTextures(s,
                       Emit([g EXCEPT !.listRel = @ + 1],
                            <<"glDeleteLists", "_listID">>),
                       releaseFails)

----------------------------------------------------------------------------
(* Hit tests *)

\* (mutant) contains() answering instead of refusing
containsAnswers(s, g) == Res(s, g, "none")

contains(s, g) == Res(s, g, "NotImplementedError")

overlaps(s, g) == Res(s, g, "NotImplementedError")

----------------------------------------------------------------------------
(* Construction *)

DefaultTexRes == 128

EmptyContent == <<"", 0, "">>

EmptyList ==
    [program |-> "", color |-> "",
     quad |-> [c \in {"L", "R", "T", "B", "Ltex", "Rtex", "Ttex", "Btex",
                      "Lmask", "Bmask", "Tmask", "Rmask"} |-> Zero]]

\* The context before the stimulus is built: nothing pushed, the view
\* transform current.
NewContext ==
    [texContent |-> EmptyContent, maskContent |-> EmptyContent,
     list |-> EmptyList, mstack |-> <<>>, xform |-> <<>>,
     texRel |-> 0, maskRel |-> 0, listRel |-> 0, alive |-> TRUE,
     texGen |-> 0, listGen |-> 0, color |-> White,
     active |-> 0, bound |-> <<"0", "0">>, enabled |-> <<FALSE, FALSE>>,
     program |-> "0", log |-> <<>>]

\* __init__ up to the handles: the provisional seeds (size 1, sf 1), the two
\* texture names, texRes and maskParams.
Seed(unitsArg, texArg, shaders, texResArg) ==
    [units |-> unitsArg, size |-> <<One, One>>, sf |-> <<One, One>>,
     tex |-> texArg, mask |-> "", phase |-> None, ori |-> 0,
     texRes |-> texResArg, maskParams |-> "None",
     requestedSize |-> None, origSize |-> None,
     cycles |-> None, sizeRendered |-> None,
     needUpdate |-> FALSE, hasList |-> FALSE, useShaders |-> shaders,
     texID |-> 0, maskID |-> 0, listID |-> 0,
     color |-> One, contrast |-> One, opacity |-> One]

\* __init__, one step after the other; the first step that raises ends it
\* and the object stays as far as it got.
\* glGenTextures, glGenLists: the context hands out the next unused name.
glGenTextures(g, id) ==
    Emit([g EXCEPT !.texGen = @ + 1], <<"glGenTextures", id>>)

glGenLists(g) ==
    Emit([g EXCEPT !.listGen = @ + 1], <<"glGenLists", "_listID">>)

initHandles(unitsArg, texArg, shaders, texResArg) ==
    Res([Seed(unitsArg, texArg, shaders, texResArg)
            EXCEPT !.texID = glGenTextures(NewContext, "_texID").texGen,
                   !.maskID = glGenTextures(
                                  glGenTextures(NewContext, "_texID"),
                                  "_maskID").texGen],
        glGenTextures(glGenTextures(NewContext, "_texID"), "_maskID"),
        "none")

initOriPhase(r) ==
    phase([r.s EXCEPT !.ori = 0, !.needUpdate = TRUE], r.g, Pair(Zero, Zero))

initSize(r, sizeArg) ==
    size([r.s EXCEPT !.origSize = None, !.requestedSize = val2array(sizeArg)],
         r.g, Arr(val2array(sizeArg)), FALSE)

initSf(r, sfArg) ==
    IF r.err # "none" THEN r ELSE sf(r.s, r.g, Arr(val2array(sfArg)))

initTex(r, texArg) ==
    IF r.err # "none" THEN r ELSE tex(r.s, r.g, texArg, FALSE)

initMask(r, maskArg) ==
    IF r.err # "none" THEN r ELSE mask(r.s, r.g, maskArg)

initList(r) ==
    IF r.err # "none" THEN r
    ELSE _updateList([_calcCyclesPerStim(r.s)
                         EXCEPT !.hasList = TRUE,
                                !.listID = glGenLists(r.g).listGen],
                     glGenLists(r.g), FALSE)

__init__(unitsArg, sizeArg, sfArg, texArg, maskArg, shaders, texResArg) ==
    initList(initMask(initTex(initSf(initSize(initOriPhase(
        initHandles(unitsArg, texArg, shaders, texResArg)), sizeArg), sfArg),
        texArg), maskArg))

\* The object __init__ leaves, for every choice of arguments among those
\* given; "unbuilt" when __init__ raised.
Built(us, sizes, sfs, texs, masks, ress) ==
    \E u \in us, sz \in sizes, f \in sfs, tx \in texs, mk \in masks,
       sh \in BOOLEAN, res \in ress :
        LET r == __init__(u, sz, f, tx, mk, sh, res) IN
        /\ stim = r.s
        /\ gl = r.g
        /\ life = IF r.err = "none" THEN "alive" ELSE "unbuilt"
        /\ last = [op |-> "__init__", err |-> r.err]

----------------------------------------------------------------------------
(* Operations on the built stimulus *)

MaxClears == 2

MaxLeak == 1

Begin(g) == [g EXCEPT !.log = <<>>]

Usable == life = "alive" /\ gl.alive

Apply(op, r) ==
    /\ stim' = r.s
    /\ gl' = r.g
    /\ last' = [op |-> op, err |-> r.err]
    /\ UNCHANGED life

setSF(values) ==
    /\ Usable
    /\ \E value \in values : Apply("sf", sf(stim, Begin(gl), value))

setPhase(values) ==
    /\ Usable
    /\ \E value \in values : Apply("phase", phase(stim, Begin(gl), value))

setTex(values) ==
    /\ Usable
    /\ \E value \in values, resolveFails \in BOOLEAN :
          Apply("tex", tex(stim, Begin(gl), value, resolveFails))

setMask(values) ==
    /\ Usable
    /\ \E value \in values : Apply("mask", mask(stim, Begin(gl), value))

setSize(values) ==
    /\ Usable
    /\ \E value \in values, resolveFails \in BOOLEAN :
          Apply("size", size(stim, Begin(gl), value, resolveFails))

setUnits(values) ==
    /\ Usable
    /\ \E value \in values : Apply("units", units(stim, Begin(gl), value))

setOri(values) ==
    /\ Usable
    /\ \E value \in values : Apply("ori", ori(stim, Begin(gl), value))

setColor(values) ==
    /\ Usable
    /\ \E value \in values : Apply("color", color(stim, Begin(gl), value))

setContrast(values) ==
    /\ Usable
    /\ \E value \in values :
          Apply("contrast", contrast(stim, Begin(gl), value))

setOpacity(values) ==
    /\ Usable
    /\ \E value \in values :
          Apply("opacity", opacity(stim, Begin(gl), value))

setTexRes(values) ==
    /\ Usable
    /\ \E value \in values : Apply("texRes", texRes(stim, Begin(gl), value))

setMaskParams(values) ==
    /\ Usable
    /\ \E value \in values :
          Apply("maskParams", maskParams(stim, Begin(gl), value))

Draw ==
    /\ Usable
    /\ \E colorFails, compileFails, replayFails \in BOOLEAN :
          /\ (colorFails \/ compileFails \/ replayFails)
                => Len(gl.mstack) < MaxLeak
          /\ Apply("draw", draw(stim, Begin(gl), colorFails, compileFails,
                                replayFails))

\* _updateList() called by the user ("call it if you change a property
\* manually").
UpdateList ==
    /\ Usable
    /\ \E fails \in BOOLEAN :
          Apply("_updateList", _updateList(stim, Begin(gl), fails))

\* contains(*args, **kwargs), overlaps(*args, **kwargs): the arguments are
\* never looked at.
Contains ==
    /\ life = "alive"
    /\ Apply("contains", contains(stim, Begin(gl)))

Overlaps ==
    /\ life = "alive"
    /\ Apply("overlaps", overlaps(stim, Begin(gl)))

ClearTextures ==
    /\ life = "alive"
    /\ gl.texRel < MaxClears
    /\ \E releaseFails \in BOOLEAN :
          /\ releaseFails => ~gl.alive
          /\ Apply("clearTextures",
                   clearTextures(stim, Begin(gl), releaseFails))

\* Garbage collection of the object, built or not.
Del ==
    /\ life \in {"alive", "unbuilt"}
    /\ \E releaseFails \in BOOLEAN :
          /\ releaseFails => ~gl.alive
          /\ LET r == __del__(stim, Begin(gl), releaseFails) IN
             /\ stim' = r.s
             /\ gl' = r.g
             /\ last' = [op |-> "__del__", err |-> r.err]
             /\ life' = "deleted"

\* The window is closed under the stimulus.
CloseWindow ==
    /\ life = "alive"
    /\ gl.alive
    /\ gl' = [Begin(gl) EXCEPT !.alive = FALSE]
    /\ last' = [op |-> "close", err |-> "none"]
    /\ UNCHANGED <<stim, life>>

----------------------------------------------------------------------------
(* The parameter store: every setter, with every kind of value *)

InitParams ==
    Built({"norm"}, {NoneIn, Pair(Two, Two)}, {Pair(One, One)}, {"sin"},
          {"none"}, {DefaultTexRes})

NextParams ==
    \/ setSF(SfInputs)
    \/ setPhase(PhaseInputs)
    \/ setTex(TexSpecs)
    \/ setMask(MaskSpecs)
    \/ setSize(SizeInputs)
    \/ setUnits(Units)
    \/ setOri(OriValues)
    \/ setTexRes(TexResValues)
    \/ setMaskParams(MaskParamValues)

SpecParams == InitParams /\ [][NextParams]_vars

(* Every operation of the built stimulus, with few values each *)

InitDraw ==
    Built({"norm", "deg"}, {NoneIn, Pair(One, Two)}, {Pair(One, One)},
          {"sin"}, {"none"}, {DefaultTexRes})

NextDraw ==
    \/ setSF({Scalar(Two), BadIn})
    \/ setPhase({Pair(Half, Zero), BadIn})
    \/ setTex({"img", "missing"})
    \/ setMask({"gauss", "missing"})
    \/ setSize({Pair(One, Two)})
    \/ setUnits({"norm", "deg"})
    \/ setOri({45})
    \/ setTexRes(TexResValues)
    \/ setMaskParams(MaskParamValues)
    \/ Draw

SpecDraw == InitDraw /\ [][NextDraw]_vars

(* The life of the handles: construction, use, release *)

InitLife ==
    Built(Units, {NoneIn, Pair(Two, Two)}, {NoneIn, Pair(One, One)},
          TexSpecs, MaskSpecs, {DefaultTexRes})

NextLife ==
    \/ setPhase({Pair(Half, Zero)})
    \/ setTex({"img"})
    \/ Draw
    \/ ClearTextures
    \/ Del
    \/ CloseWindow

SpecLife == InitLife /\ [][NextLife]_vars

(* Hit tests in every kind of state: clean, dirty, released, window closed *)

InitQuery ==
    Built({"norm", "pix"}, {NoneIn, Pair(Two, Two)}, {Pair(One, One)},
          {"sin", "img"}, {"none", "gauss"}, {DefaultTexRes})

NextQuery ==
    \/ Contains
    \/ Overlaps
    \/ setSF({Scalar(Two)})
    \/ setTex({"img", "missing"})
    \/ Draw
    \/ ClearTextures
    \/ CloseWindow

SpecQuery == InitQuery /\ [][NextQuery]_vars

(* Colour, contrast and opacity between draws *)

InitColor ==
    Built({"norm"}, {Pair(Two, Two)}, {Pair(One, One)}, {"sin"}, {"none"},
          {DefaultTexRes})

NextColor ==
    \/ setColor(ColorValues)
    \/ setContrast(ContrastValues)
    \/ setOpacity(OpacityValues)
    \/ setPhase({Pair(Half, Zero)})
    \/ setTex({"img"})
    \/ Draw

SpecColor == InitColor /\ [][NextColor]_vars

(* Automatic values: sf and size left as None *)

InitAuto ==
    Built(Units, {NoneIn, Pair(Two, Two)}, {NoneIn}, {"sin", "img"},
          {"none"}, {DefaultTexRes})

NextAuto ==
    \/ setSF({NoneIn})
    \/ setSize({NoneIn, Pair(One, Two)})
    \/ setUnits(Units)
    \/ setTex({"sin", "img"})

SpecAuto == InitAuto /\ [][NextAuto]_vars

(* Compilations on demand, in a row and between assignments *)

InitCompile ==
    Built({"norm", "deg"}, {Pair(One, Two)}, {Pair(One, One)}, {"sin"},
          {"none"}, {DefaultTexRes})

NextCompile ==
    \/ UpdateList
    \/ Draw
    \/ setPhase({Pair(Half, Zero)})
    \/ setSF({Scalar(Two)})
    \/ setTex({"img"})
    \/ setMask({"gauss"})

SpecCompile == InitCompile /\ [][NextCompile]_vars

(* A drifting grating: the phase moved between compilations *)

InitDrift ==
    Built({"norm", "deg"}, {Pair(One, Two)}, {Pair(One, One)}, {"sin"},
          {"none"}, {DefaultTexRes})

NextDrift ==
    \/ setPhase(DriftPhases)
    \/ setSF({Scalar(Two), Pair(One, Half)})
    \/ setUnits({"norm", "deg"})
    \/ UpdateList
    \/ Draw

SpecDrift == InitDrift /\ [][NextDrift]_vars

(* The texture resolution: handed to the constructor and assigned later *)

InitRes ==
    Built({"norm"}, {Pair(Two, Two)}, {Pair(One, One)}, {"sin", "img"},
          {"none"}, TexResInputs)

NextRes ==
    \/ setTexRes(TexResInputs)
    \/ setTex({"sin", "img"})
    \/ setMask({"gauss"})
    \/ setPhase({Pair(Half, Zero)})

SpecRes == InitRes /\ [][NextRes]_vars

----------------------------------------------------------------------------
(* Properties *)

HasCmd(log, name) == \E i \in 1..Len(log) : log[i][1] = name

Setters ==
    {"sf", "phase", "tex", "mask", "size", "units", "ori", "texRes",
     "maskParams"}

\* C1: in every state of a built stimulus, whatever sf, size and units were
\* assigned, cycles is sf under units norm or height and sf * size
\* (component-wise) under any other units; with sf (1,1) and size (2,2) that
\* is (1,1) under norm and (2,2) under deg.
C1_CyclesFollowUnits ==
    life = "alive" =>
        /\ stim.units \in {"norm", "height"} => stim.cycles = stim.sf
        /\ stim.units \notin {"norm", "height"}
              => stim.cycles = <<(stim.sf[1] * stim.size[1]) \div Scale,
                                 (stim.sf[2] * stim.size[2]) \div Scale>>
        /\ (stim.sf = <<One, One>> /\ stim.size = <<Two, Two>>)
              => /\ stim.units = "norm" => stim.cycles = <<One, One>>
                 /\ stim.units = "deg" => stim.cycles = <<Two, Two>>

\* C1 witness: units assigned 'deg' with sf (1,1) and size (2,2) in place.
C1_Witness ==
    /\ last.op = "units" /\ stim.units = "deg"
    /\ stim.sf = <<One, One>> /\ stim.size = <<Two, Two>>
    /\ stim.cycles = <<Two, Two>>

\* C2 as claimed: every successful assignment to tex, mask, size, phase, sf,
\* ori, texRes or maskParams leaves _needUpdate true.
C2_EverySetterMarksDirty ==
    [][(last'.op \in {"tex", "mask", "size", "phase", "sf", "ori", "texRes",
                      "maskParams"} /\ last'.err = "none")
         => stim'.needUpdate]_vars

\* C2 amended: a successful assignment to size, phase, sf or ori leaves
\* _needUpdate true; a successful assignment to tex leaves it true when the
\* size was requested as None (the size is then re-resolved) and unchanged
\* otherwise; a successful assignment to mask, texRes or maskParams leaves it
\* unchanged.
C2_DirtyBySetter ==
    [][last'.err = "none" =>
         /\ last'.op \in {"size", "phase", "sf", "ori"} => stim'.needUpdate
         /\ last'.op = "tex"
               => stim'.needUpdate
                    = (stim.needUpdate \/ stim.requestedSize = None)
         /\ last'.op \in {"mask", "texRes", "maskParams"}
               => stim'.needUpdate = stim.needUpdate]_vars

\* C2 witness: a mask was assigned and the stimulus is not dirty.
C2_Witness ==
    last.op = "mask" /\ last.err = "none" /\ ~stim.needUpdate

\* C3 as claimed: _needUpdate goes from true to false only in an operation
\* that completed a recompilation of the list (glNewList ... glEndList).
C3_ClearedOnlyByCompletedCompile ==
    [][(stim.needUpdate /\ ~stim'.needUpdate)
         => HasCmd(gl'.log, "glEndList")]_vars

C5_DrawRestoresTransform ==
    [][last'.op = "draw"
         => (gl'.mstack = gl.mstack /\ gl'.xform = gl.xform)]_vars

\* C6 as claimed: once __del__ has run to its end, after any number of
\* clearTextures() calls, each of the three handles was released exactly
\* once.
C6_ReleasedExactlyOnce ==
    (life = "deleted" /\ last.err = "none")
        => (gl.texRel = 1 /\ gl.maskRel = 1 /\ gl.listRel = 1)

\* C7 as claimed: __del__ never raises.
C7_DelNeverRaises ==
    last.op = "__del__" => last.err = "none"

\* C8 as claimed: once the textures are released, a setter or draw() changes
\* nothing of the stimulus and never replays the list.
C8_NoUseAfterRelease ==
    [][(gl.texRel > 0 /\ last'.op \in Setters \cup {"draw"})
         => (stim' = stim /\ ~HasCmd(gl'.log, "glCallList"))]_vars

\* C9 as claimed: when the provider fails in an assignment to tex or mask,
\* the stored parameters and the handles' content stay and the stimulus is
\* not dirty.
C9_FailedLoadLeavesClean ==
    [][(last'.op \in {"tex", "mask"} /\ last'.err = "TextureLoadError")
         => /\ stim'.tex = stim.tex /\ stim'.mask = stim.mask
            /\ gl'.texContent = gl.texContent
            /\ gl'.maskContent = gl.maskContent
            /\ ~stim'.needUpdate]_vars

\* C9 amended: when the provider fails in an assignment to tex or mask, the
\* error reaches the caller, the stored parameters and the handles' content
\* stay, and _needUpdate keeps the value it had before the call.
C9_FailedLoadChangesNothing ==
    [][(last'.op \in {"tex", "mask"} /\ last'.err = "TextureLoadError")
         => /\ stim'.tex = stim.tex /\ stim'.mask = stim.mask
            /\ gl'.texContent = gl.texContent
            /\ gl'.maskContent = gl.maskContent
            /\ stim'.needUpdate = stim.needUpdate]_vars

\* C9 witness: a tex assignment failed in the provider on a dirty stimulus.
C9_Witness ==
    /\ last.op = "tex" /\ last.err = "TextureLoadError"
    /\ stim.needUpdate /\ gl.texContent[1] = stim.tex

\* C10 as claimed: a setter that raises leaves the parameters, the derived
\* state, the dirty flag and the content of both image handles as they were.
C10_SettersAtomic ==
    [][(last'.op \in Setters /\ last'.err # "none")
         => /\ stim' = stim
            /\ gl'.texContent = gl.texContent
            /\ gl'.maskContent = gl.maskContent]_vars

IsPowerOfTwo(n) == \E k \in 0..12 : n = 2 ^ k

\* C11 as claimed: a texRes handed to the constructor or assigned later is
\* stored when it is a power of two; any other value is refused with
\* InvalidParameterError and texRes stays as it was.
C11_TexResValidated ==
    /\ (last.op = "__init__" /\ last.err = "none")
          => IsPowerOfTwo(stim.texRes)
    /\ [][last'.op = "texRes"
            => \/ last'.err = "none" /\ IsPowerOfTwo(stim'.texRes)
               \/ /\ last'.err = "InvalidParameterError"
                  /\ stim'.texRes = stim.texRes]_vars

\* C12: contains() and overlaps() raise NotImplementedError in every state
\* of a built stimulus, whatever the arguments, and leave the stimulus and
\* the GL context as they were (no GL command is issued).
C12_HitTestsUnsupported ==
    [][last'.op \in {"contains", "overlaps"}
         => /\ last'.err = "NotImplementedError"
            /\ stim' = stim
            /\ gl' = Begin(gl)
            /\ life' = life]_vars

\* C12 witness: contains() refused on a dirty stimulus whose textures are
\* released and whose window is closed.
C12_Witness ==
    /\ last.op = "contains" /\ last.err = "NotImplementedError"
    /\ stim.needUpdate /\ gl.texRel > 0 /\ ~gl.alive

\* C13: construction generates two texture names and one list name; after
\* it no operation generates another name or changes _texID, _maskID or
\* _listID, and a recompilation records into the list _listID names.
C13_HandlesAllocatedOnce ==
    /\ (last.op = "__init__" /\ last.err = "none")
          => /\ gl.texGen = 2 /\ gl.listGen = 1
             /\ stim.texID = 1 /\ stim.maskID = 2 /\ stim.listID = 1
    /\ [][/\ stim'.texID = stim.texID /\ stim'.maskID = stim.maskID
           /\ stim'.listID = stim.listID
           /\ gl'.texGen = gl.texGen /\ gl'.listGen = gl.listGen
           /\ ~HasCmd(gl'.log, "glGenTextures")
           /\ ~HasCmd(gl'.log, "glGenLists")
           /\ \A i \in 1..Len(gl'.log) :
                 gl'.log[i][1] \in {"glNewList", "glEndList", "glCallList"}
                    => gl'.log[i][2] \in {"_listID", "failed"}]_vars

\* C13 witness: a draw() recompiled the list of a stimulus whose texture and
\* mask were both reloaded, with the names of construction still in place.
C13_Witness ==
    /\ last.op = "draw" /\ last.err = "none"
    /\ HasCmd(gl.log, "glEndList")
    /\ gl.texContent[1] = "img" /\ gl.maskContent[1] = "gauss"
    /\ stim.texID = 1 /\ stim.maskID = 2 /\ stim.listID = 1
    /\ gl.texGen = 2 /\ gl.listGen = 1

\* C14: an assignment to color, contrast or opacity leaves _needUpdate and
\* the compiled list as they were and issues no GL command; every draw()
\* that returns has set the current colour from the values of color,
\* contrast and opacity it found, recompiling only if the stimulus was
\* dirty already.
C14_ColorNeverRecompiles ==
    [][/\ last'.op \in {"color", "contrast", "opacity"}
            => /\ last'.err = "none"
               /\ stim'.needUpdate = stim.needUpdate
               /\ gl' = Begin(gl)
       /\ (last'.op = "draw" /\ last'.err = "none")
            => /\ \E i \in 1..Len(gl'.log) :
                     gl'.log[i] = <<"glColor4f",
                                    <<_getDesiredRGB(stim), stim.opacity>>>>
               /\ HasCmd(gl'.log, "glNewList") => stim.needUpdate]_vars

\* C14 witness: a clean stimulus drawn after its contrast and opacity were
\* halved: no recompilation, the colour set to grey level 3/4, alpha 1/2.
C14_Witness ==
    /\ last.op = "draw" /\ last.err = "none"
    /\ stim.contrast = Half /\ stim.opacity = Half /\ stim.color = One
    /\ ~HasCmd(gl.log, "glNewList")
    /\ \E i \in 1..Len(gl.log) :
          gl.log[i] = <<"glColor4f", <<Half + Half \div 2, Half>>>>

\* What an unset sf resolves to according to C15.
AutoSfClaimed(s) ==
    IF s.origSize # None /\ s.units \in {"deg", "cm", "pix"}
    THEN <<(Scale * Scale) \div s.size[1], (Scale * Scale) \div s.size[2]>>
    ELSE <<One, One>>

\* C15 as claimed: an sf left as None is 1/size when an image has
\* established the intrinsic size and units is deg, cm or pix, and (1,1)
\* otherwise; so after construction with sf=None, and after every later
\* assignment of None to sf.
C15_AutoSf ==
    /\ (last.op = "__init__" /\ last.err = "none")
          => stim.sf = AutoSfClaimed(stim)
    /\ [][(last'.op = "sf" /\ last'.err = "none")
            => stim'.sf = AutoSfClaimed(stim')]_vars

\* The pixel size of the image file in the units of the stimulus.
Intrinsic(s) ==
    <<(ImgSize[1] * Scale) \div PixPerUnit(s.units),
      (ImgSize[2] * Scale) \div PixPerUnit(s.units)>>

CyclesOf(s) ==
    IF s.units \in {"norm", "height"} THEN s.sf
    ELSE <<(s.sf[1] * s.size[1]) \div Scale, (s.sf[2] * s.size[2]) \div Scale>>

\* C16: with the size requested as None, a stimulus built on an image file
\* and a stimulus after any later tex assignment that loads an image has
\* the intrinsic size of that image as its size, with cycles computed from
\* that size; with an explicit size requested, a tex assignment leaves the
\* size as it was.
C16_AutoSize ==
    /\ (last.op = "__init__" /\ last.err = "none" /\ stim.tex = "img"
           /\ stim.requestedSize = None)
          => (stim.size = Intrinsic(stim) /\ stim.cycles = CyclesOf(stim))
    /\ [][(last'.op = "tex" /\ last'.err = "none")
            => /\ (stim.requestedSize = None /\ stim'.tex = "img")
                    => /\ stim'.size = Intrinsic(stim')
                       /\ stim'.cycles = CyclesOf(stim')
                       /\ stim'.requestedSize = None
               /\ stim.requestedSize # None
                    => /\ stim'.size = stim.size
                       /\ stim'.requestedSize = stim.requestedSize]_vars

\* C16 witness: an image was assigned to a stimulus in deg with automatic
\* size and an sf other than 1: the size is the image's 4 pixels at 2 pixels
\* per degree, the cycles follow.
C16_Witness ==
    /\ last.op = "tex" /\ last.err = "none" /\ stim.tex = "img"
    /\ stim.requestedSize = None /\ stim.units = "deg"
    /\ stim.size = <<Two, Two>> /\ stim.sf # <<One, One>>
    /\ stim.cycles = <<(stim.sf[1] * Two) \div Scale,
                       (stim.sf[2] * Two) \div Scale>>

\* The operation that led to this state ended with a completed compilation.
JustCompiled ==
    /\ last.op \in {"__init__", "draw", "_updateList"} /\ last.err = "none"
    /\ HasCmd(gl.log, "glEndList")

\* C17: a compilation that follows a completed compilation with no
\* assignment in between leaves the same list name holding the same recorded
\* commands, issues the same GL commands as any compilation (glNewList ..
\* glEndList on _listID) and, like every compilation, calls the provider
\* for neither handle.
C17_CompileIdempotent ==
    [][/\ (JustCompiled /\ last'.op = "_updateList" /\ last'.err = "none")
            => /\ gl'.list = gl.list
               /\ stim'.listID = stim.listID
               /\ stim' = stim
               /\ gl'.texContent = gl.texContent
               /\ gl'.maskContent = gl.maskContent
               /\ gl'.log = << <<"glNewList", "_listID">>,
                               <<"glEndList", "_listID">> >>
       /\ last'.op \in {"_updateList", "draw"}
            => ~HasCmd(gl'.log, "glTexImage2D")]_vars

\* C17 witness: _updateList() returned on a stimulus with a shifted phase
\* and a loaded image, the list holding what these parameters compile to.
C17_Witness ==
    /\ last.op = "_updateList" /\ last.err = "none"
    /\ ~stim.needUpdate /\ stim.phase = <<Half, Zero>> /\ stim.tex = "img"
    /\ gl.list.quad = Quad(stim)

\* The handles the provider uploaded into during the last operation.
Uploads == {gl.log[i][2] : i \in {j \in 1..Len(gl.log) :
                                      gl.log[j][1] = "glTexImage2D"}}

\* C18: an assignment to tex uploads into _texID only and leaves the content
\* of _maskID and the stored mask as they were; an assignment to mask
\* uploads into _maskID only and leaves the content of _texID and the stored
\* tex as they were; a successful one leaves the named pattern in its own
\* handle.  As this holds for every assignment, it holds in either order.
C18_TexMaskIndependent ==
    [][/\ last'.op = "tex"
            => /\ gl'.maskContent = gl.maskContent
               /\ stim'.mask = stim.mask
               /\ Uploads' \subseteq {"_texID"}
               /\ last'.err = "none"
                     => (Uploads' = {"_texID"}
                         /\ gl'.texContent[1] = stim'.tex)
       /\ last'.op = "mask"
            => /\ gl'.texContent = gl.texContent
               /\ stim'.tex = stim.tex
               /\ Uploads' \subseteq {"_maskID"}
               /\ last'.err = "none"
                     => (Uploads' = {"_maskID"}
                         /\ gl'.maskContent[1] = stim'.mask)]_vars

\* C18 witness: a mask was assigned after an image texture; each handle
\* holds its own pattern.
C18_Witness ==
    /\ last.op = "mask" /\ last.err = "none"
    /\ stim.tex = "img" /\ gl.texContent[1] = "img"
    /\ stim.mask = "gauss" /\ gl.maskContent[1] = "gauss"

\* C19 as claimed: whenever draw() replays the list, the quad recorded in it
\* (half-extents and texture coordinates) is the one computed from the
\* current rendered size, cycles and phase.
C19_ReplayIsCurrent ==
    [][(last'.op = "draw"
          /\ \E i \in 1..Len(gl'.log) :
                gl'.log[i] = <<"glCallList", "_listID">>)
         => gl'.list.quad = Quad(stim')]_vars

\* C20 as claimed: with either backend the compiled list holds no colour
\* command, and when a draw() has replayed it the colour the quad was
\* emitted with (the current colour, nothing after the quad changes it) is
\* the one draw() set from color, contrast and opacity.
C20_NoColorInList ==
    /\ [](life = "alive" => gl.list.color = "none")
    /\ [][(last'.op = "draw" /\ last'.err = "none")
            => gl'.color = <<_getDesiredRGB(stim'), stim'.opacity>>]_vars

\* C21: the texture window a completed compilation has recorded runs, on
\* each axis, from -cycles/2 - phase + 0.5 to +cycles/2 - phase + 0.5: its
\* width is cycles and its centre 0.5 - phase.  A phase is stored as
\* assigned, not reduced modulo 1, and when the phase is assigned between
\* two compilations all four edges move by minus the increase of the phase.
C21_TexWindow ==
    /\ [](JustCompiled
           => /\ 2 * gl.list.quad.Ltex = One - stim.cycles[1] - 2 * stim.phase[1]
              /\ 2 * gl.list.quad.Rtex = One + stim.cycles[1] - 2 * stim.phase[1]
              /\ 2 * gl.list.quad.Btex = One - stim.cycles[2] - 2 * stim.phase[2]
              /\ 2 * gl.list.quad.Ttex = One + stim.cycles[2] - 2 * stim.phase[2]
              /\ gl.list.quad.Rtex - gl.list.quad.Ltex = stim.cycles[1]
              /\ gl.list.quad.Ttex - gl.list.quad.Btex = stim.cycles[2]
              /\ gl.list.quad.Rtex + gl.list.quad.Ltex = One - 2 * stim.phase[1]
              /\ gl.list.quad.Ttex + gl.list.quad.Btex = One - 2 * stim.phase[2]
              /\ \A v \in DriftPhases :
                    phase(stim, gl, v).s.phase
                       = IF v.k = "scalar" THEN <<v.x, v.x>> ELSE <<v.x, v.y>>)
    /\ [][(JustCompiled /\ last'.op = "phase" /\ last'.err = "none")
            => /\ _updateList(stim', gl', FALSE).g.list.quad.Ltex
                    - gl.list.quad.Ltex = -(stim'.phase[1] - stim.phase[1])
               /\ _updateList(stim', gl', FALSE).g.list.quad.Rtex
                    - gl.list.quad.Rtex = -(stim'.phase[1] - stim.phase[1])
               /\ _updateList(stim', gl', FALSE).g.list.quad.Btex
                    - gl.list.quad.Btex = -(stim'.phase[2] - stim.phase[2])
               /\ _updateList(stim', gl', FALSE).g.list.quad.Ttex
                    - gl.list.quad.Ttex = -(stim'.phase[2] - stim.phase[2])]_vars

\* C21 witness: compiled with phase (1.5, 2) and 2 cycles along x: the
\* window along x runs from -2 to 0.
C21_Witness ==
    /\ JustCompiled
    /\ stim.phase = <<One + Half, Two>> /\ stim.cycles[1] = Two
    /\ gl.list.quad.Ltex = Zero - Two /\ gl.list.quad.Rtex = Zero

\* No texture or program state of the stimulus is left in the context.
NothingLeaked(g, shaders) ==
    /\ g.enabled = <<FALSE, FALSE>>
    /\ g.bound = <<"0", "0">>
    /\ g.active = 0
    /\ shaders => g.program = "0"

\* The context as another drawable may have left it.
Contexts ==
    {[gl EXCEPT !.active = a, !.enabled = <<e, e>>, !.bound = <<b, b>>,
                !.program = pr] :
        a \in {0, 1}, e \in BOOLEAN, b \in {"0", "other"},
        pr \in {"0", "other"}}

\* C22: after draw() has replayed the list, with either backend, texturing
\* is disabled and no texture bound on units 0 and 1, unit 0 is the active
\* one and, with shaders, program 0 is in use; the list a built stimulus
\* holds ends in that state from whatever state the context was in.
C22_ReplayLeaksNothing ==
    /\ [][(last'.op = "draw"
            /\ \E i \in 1..Len(gl'.log) :
                  gl'.log[i] = <<"glCallList", "_listID">>)
            => NothingLeaked(gl', stim'.useShaders)]_vars
    /\ [](life = "alive"
           => \A g \in Contexts :
                NothingLeaked(Run(g, Recorded(gl.list), 1), stim.useShaders))

\* C22 witness: a draw() recompiled and replayed the list of a stimulus with
\* an image texture and a mask, leaving the units clean.
C22_Witness ==
    /\ last.op = "draw" /\ last.err = "none"
    /\ HasCmd(gl.log, "glEndList") /\ HasCmd(gl.log, "glCallList")
    /\ gl.texContent[1] = "img" /\ gl.maskContent[1] = "gauss"
    /\ Len(Recorded(gl.list)) > 0
    /\ NothingLeaked(gl, stim.useShaders)

\* The texture coordinate of unit u in force at command i of a list.
CoordAt(cmds, i, u) ==
    LET js == {j \in 1..(i - 1) :
                 /\ cmds[j][1] \in {"glMultiTexCoord2f", "glMultiTexCoord2fARB"}
                 /\ cmds[j][2] = u}
        j  == CHOOSE m \in js : \A n \in js : n <= m
    IN  IF js = {} THEN None ELSE <<cmds[j][3], cmds[j][4]>>

\* The vertices a list emits, in order, each with the texture and the mask
\* coordinate it is emitted with.
Corners(cmds) ==
    LET idx == {i \in 1..Len(cmds) : cmds[i][1] = "glVertex2f"} IN
    [k \in 1..Cardinality(idx) |->
        LET i == CHOOSE m \in idx : Cardinality({n \in idx : n < m}) = k - 1
        IN  [v    |-> <<cmds[i][2], cmds[i][3]>>,
             tex  |-> CoordAt(cmds, i, 0),
             mask |-> CoordAt(cmds, i, 1)]]

\* Right-bottom, left-bottom, left-top, right-top: the signs of the corners.
CornerSigns == << <<1, -1>>, <<-1, -1>>, <<-1, 1>>, <<1, 1>> >>

\* c is the quad of size s.sizeRendered about the origin, mapped onto the
\* texture window of s.cycles and s.phase and onto the whole mask.
IsQuadOf(c, s) ==
    /\ Len(c) = Len(CornerSigns)
    /\ \A k \in 1..Len(CornerSigns) : \A a \in 1..2 :
          /\ 2 * c[k].v[a] = CornerSigns[k][a] * s.sizeRendered[a]
          /\ 2 * c[k].tex[a]
                = CornerSigns[k][a] * s.cycles[a] - 2 * s.phase[a] + One
          /\ c[k].mask[a] = IF CornerSigns[k][a] = 1 THEN One ELSE Zero

\* C23: for the rendered size, cycles and phase of any built stimulus, the
\* list _updateListShaders records and the list _updateListNoShaders
\* records emit the same four vertices (+-sizeRendered/2 about the origin)
\* in the same order, each with the same texture coordinate and the same
\* mask coordinate, the mask coordinates being the corners of the unit
\* square; so does the list a completed compilation has left.
C23_BackendsSameQuad ==
    /\ life = "alive"
          => /\ Corners(Recorded(_updateListShaders(stim, gl, FALSE).g.list))
                  = Corners(Recorded(
                        _updateListNoShaders(stim, gl, FALSE).g.list))
             /\ IsQuadOf(Corners(Recorded(
                     _updateListShaders(stim, gl, FALSE).g.list)), stim)
             /\ IsQuadOf(Corners(Recorded(
                     _updateListNoShaders(stim, gl, FALSE).g.list)), stim)
    /\ JustCompiled => IsQuadOf(Corners(Recorded(gl.list)), stim)

\* C23 witness: the legacy backend compiled a 2 x 4 pixel quad with 2 cycles
\* along x and the phase 1.5: right-bottom is (1,-2) with texture
\* coordinate (0,.) and mask coordinate (1,0).
C23_Witness ==
    /\ JustCompiled /\ ~stim.useShaders
    /\ stim.sizeRendered = <<Two, Four>> /\ stim.cycles[1] = Two
    /\ stim.phase[1] = One + Half
    /\ Corners(Recorded(gl.list))[1].v = <<One, Zero - Two>>
    /\ Corners(Recorded(gl.list))[1].tex[1] = Zero
    /\ Corners(Recorded(gl.list))[1].mask = <<One, Zero>>
    /\ Corners(Recorded(gl.list))
          = Corners(Recorded(_updateListShaders(stim, gl, FALSE).g.list))

====
